---- MODULE Spec2Model ----
(***************************************************************************)
(* State-machine model of the irys client (package irys).                  *)
(*                                                                         *)
(* One client object and one caller.  An operation is a sequence of steps  *)
(* separated at the points where the environment acts: the resilient       *)
(* transport delivers the outcome of an attempt, the currency provider     *)
(* answers, the caller's context is cancelled.  Everything the code does   *)
(* between two such points is one step.                                    *)
(*                                                                         *)
(* A *big.Int is a sequence: <<>> is the nil pointer, <<v>> points to v.   *)
(***************************************************************************)
EXTENDS Integers, Sequences, FiniteSets

\* ------------------------------------------------------------------ bounds
MaxAmount == 2          \* prices, balances and top-up amounts are 0..MaxAmount
NumHashes == 1          \* distinct funding-transaction hashes the provider returns
MaxCloses == 2          \* consecutive calls of Close that are followed
MaxChunks == 3          \* chunks the node splits a payload into
Workers == 2            \* chunk transmissions in flight at once
NumCallers == 2         \* concurrent callers of BasicUpload on one client

\* ------------------------------------------------- constants of the program
RetryMax == 5           \* irys.client.RetryMax
MinChunkSize == 500     \* ChunkUpload: min size 500 KB (sizes are in KB)
MaxChunkSize == 95 * 1024   \* ChunkUpload: max size 95 MB

\* --------------------------------------------------------------- value sets
ExamplePrice == 5 * 10   \* the price of the end-to-end example

Amounts == (0..MaxAmount) \cup {ExamplePrice}

Nil == <<>>

Ptr(v) == <<v>>

BigInts == {Nil} \cup {Ptr(v) : v \in Amounts}

Hashes == 1..NumHashes

Nodes == {"node1", "node2"}

Currencies == {"matic", "arweave"}

Addresses == {"0xA", "0xB"}

\* the node's address table: currency name -> contract address, for some currencies
AddressTables == UNION {[S -> Addresses] : S \in SUBSET Currencies}

\* transaction ids handed to Download / GetMetaData; "bad" does not parse as part of a URL
TxIds == {"tx", "bad"}

ValidURL(txId) == txId # "bad"

\* HTTP status codes the node or gateway answers with
Statuses == {200, 402, 500}

\* types.Receipt: the zero value and a receipt the node indexed
EmptyReceipt == [signature |-> "", timestamp |-> 0, version |-> "", deadlineHeight |-> 0]

SomeReceipt == [signature |-> "sig", timestamp |-> 1, version |-> "1.0.0", deadlineHeight |-> 1]

\* the edges list of a GraphQL answer: absent/null, or a list of receipts
NullEdges == [isNil |-> TRUE, items |-> <<>>]

EdgeLists == {NullEdges, [isNil |-> FALSE, items |-> <<>>], [isNil |-> FALSE, items |-> <<SomeReceipt>>]}

VARIABLES
    \* the Client object
    client,       \* "none": not constructed; "ok": New returned it; "failed": New returned an error
    network,      \* Client.network
    currency,     \* Client.currency (its name)
    contract,     \* Client.contract
    mu,           \* Client.mu: "unlocked" or "locked"
    \* the running call
    op,           \* the public operation being executed, "none" before the first
    pc,           \* position: "idle", "do", "select", "check", "createTx", "done"
    ep,           \* endpoint of the request in progress
    ctx,          \* the caller's context: "live" or "done" (cancelled or timed out)
    attempt,      \* attempts the transport has made for the request in progress
    resp,         \* status of the response the transport returned, 0 when there is none
    price,        \* BasicUpload: price
    balance,      \* BasicUpload: balance
    amount,       \* TopUpBalance: amount
    hash,         \* TopUpBalance: hash, 0 when there is none
    result,       \* what the call returned: "none", "ok", an error, or "panic"
    retVal,       \* the values returned with "ok": <<>> or <<value>>
    \* history of the running call
    reqLog,       \* the steps started, in order: endpoints and "fund"
    legRes,       \* the outcome of each finished step of reqLog, in order
    fundTxs,      \* amounts the currency provider was asked to fund
    confirmLog,   \* hashes sent to the node's confirmation endpoint
    maxAttempts,  \* the most attempts any one request of this call took
    openBodies,   \* response bodies obtained from the transport and not closed
    handed,       \* response bodies handed to the caller inside a File
    observedDone, \* the last cancellation check of this call found the context done
    lastBody,     \* the body the last decode step read: <<>> or <<body>>
    \* the transport's connection pool
    idle,         \* the pool of the client's transport holds idle connections
    closes,       \* calls of Close since the last call of another operation
    \* a ChunkUpload call
    cuPc,         \* position: "idle", "session", "sending", "finalize", "done"
    cuSize,       \* size of the payload, in KB
    cuSession,    \* the session: "none", "supplied" by the caller, "created" by the node
    cuChunks,     \* per chunk: "pending", "inflight", "acked", "failed", "expired"
    cuFinalized,  \* finalize calls issued
    cuRequests,   \* requests sent to the node
    cuResult,     \* what the call returned
    \* concurrent BasicUpload calls of one address
    nodeBalance,  \* the node's ledger: prepaid balance of the caller's address
    calls         \* per caller: position, quoted price, balance read, balance when the upload was sent

clientVars == <<client, network, currency, contract, mu>>

callVars == <<op, pc, ep, ctx, attempt, resp, price, balance, amount, hash, result, retVal>>

histVars == <<reqLog, legRes, fundTxs, confirmLog, maxAttempts, openBodies, handed, observedDone, lastBody>>

poolVars == <<idle, closes>>

chunkVars == <<cuPc, cuSize, cuSession, cuChunks, cuFinalized, cuRequests, cuResult>>

concVars == <<nodeBalance, calls>>

vars == <<clientVars, callVars, histVars, poolVars, chunkVars, concVars>>

\* ------------------------------------------------------------- pure helpers

\* statusCheck: nil for a success status, an error otherwise
statusCheck(status) == IF status = 200 THEN "ok" ELSE "ErrStatus"

\* the transport's retry policy: connection errors (status 0) and 5xx are transient
CheckRetry(status) == status = 0 \/ status >= 500

\* big.Int.Cmp on pointers: equal pointers compare equal without a dereference,
\* otherwise both are dereferenced ("panic" when one of them is nil)
Cmp(x, y) ==
    IF x = y THEN "eq"
    ELSE IF x = Nil \/ y = Nil THEN "panic"
    ELSE IF x[1] < y[1] THEN "lt" ELSE "gt"

Callers == 1..NumCallers

\* no ChunkUpload call yet
ChunkIdle ==
    /\ cuPc = "idle"
    /\ cuSize = 0
    /\ cuSession = "none"
    /\ cuChunks = <<>>
    /\ cuFinalized = 0
    /\ cuRequests = 0
    /\ cuResult = "none"

\* no concurrent BasicUpload calls
ConcIdle ==
    /\ nodeBalance = 0
    /\ calls = <<>>

Init ==
    /\ ChunkIdle
    /\ ConcIdle
    /\ client = "none"
    /\ network = "none"
    /\ currency = "none"
    /\ contract = ""
    /\ mu = "unlocked"
    /\ op = "none"
    /\ pc = "idle"
    /\ ep = "none"
    /\ ctx = "live"
    /\ attempt = 0
    /\ resp = 0
    /\ price = Nil
    /\ balance = Nil
    /\ amount = Nil
    /\ hash = 0
    /\ result = "none"
    /\ retVal = <<>>
    /\ reqLog = <<>>
    /\ legRes = <<>>
    /\ fundTxs = <<>>
    /\ confirmLog = <<>>
    /\ maxAttempts = 0
    /\ openBodies = 0
    /\ handed = 0
    /\ observedDone = FALSE
    /\ lastBody = <<>>
    /\ idle = FALSE
    /\ closes = 0

\* ------------------------------------------------------- building blocks

Max(a, b) == IF a >= b THEN a ELSE b

\* a call begins: fresh context, fresh locals, fresh history
Enter(o) ==
    /\ pc \in {"idle", "done"}
    /\ op' = o
    /\ ctx' = "live"
    /\ price' = Nil
    /\ balance' = Nil
    /\ hash' = 0
    /\ confirmLog' = <<>>
    /\ maxAttempts' = 0
    /\ handed' = 0
    /\ observedDone' = FALSE
    /\ lastBody' = <<>>

\* the request for endpoint e is built and handed to the transport
StartLeg(e, log) ==
    /\ pc' = "do"
    /\ ep' = e
    /\ attempt' = 0
    /\ resp' = 0
    /\ reqLog' = Append(log, e)

\* the call goes on: nothing returned yet
Running(bodies, lr) ==
    /\ result' = "none"
    /\ retVal' = <<>>
    /\ openBodies' = bodies
    /\ legRes' = lr

\* the call returns r (with values v), leaving `bodies` response bodies open and
\* the step outcomes lr
Return(r, v, bodies, lr) ==
    /\ pc' = "done"
    /\ result' = r
    /\ retVal' = v
    /\ openBodies' = bodies
    /\ legRes' = lr

\* a select that never takes the ctx.Done() case
CtxDoneNever(c) == FALSE

\* case <-ctx.Done() of the select after a response
CtxDone(c) == c = "done"

\* the functions that defer resp.Body.Close() after a successful Do
DefersClose(e) == e \in {"price", "balance", "confirm", "meta", "receipt", "upload"}

\* bodies left open when the function that sent the request to e returns
AfterReturn(e, bodies) == IF DefersClose(e) THEN bodies - 1 ELSE bodies

\* ------------------------------------------------------------ construction

\* New up to the call of getTokenContractAddress: the fields are set, the logger
\* is built (it may fail), the mutex is taken and the node-info request is sent
New(node, cur, loggerOK) ==
    /\ client # "ok"
    /\ Enter("New")
    /\ network' = node
    /\ currency' = cur
    /\ contract' = ""
    /\ amount' = Nil
    /\ fundTxs' = <<>>
    /\ IF loggerOK
       THEN /\ mu' = "locked"
            /\ client' = "none"
            /\ StartLeg("nodeinfo", <<>>)
            /\ Running(0, <<>>)
       ELSE /\ mu' = "unlocked"
            /\ client' = "failed"
            /\ Return("ErrLogger", <<>>, 0, <<>>)
            /\ ep' = "none"
            /\ attempt' = 0
            /\ resp' = 0
            /\ reqLog' = <<>>

\* getTokenContractAddress answering the empty address, without an error, for a
\* currency the node does not list
getTokenContractAddressLenient(decodeOK, body) ==
    /\ pc = "check"
    /\ ep = "nodeinfo"
    /\ lastBody' = IF statusCheck(resp) = "ok" /\ decodeOK THEN <<body>> ELSE <<>>
    /\ LET err == IF statusCheck(resp) # "ok" THEN statusCheck(resp)
                  ELSE IF ~decodeOK THEN "ErrDecode"
                  ELSE "ok"
       IN  /\ Return(err, <<>>, openBodies, Append(legRes, err))
           /\ client' = IF err = "ok" THEN "ok" ELSE "failed"
           /\ mu' = IF err = "ok" THEN "unlocked" ELSE mu
           /\ contract' = IF err = "ok" /\ currency \in DOMAIN body THEN body[currency] ELSE contract
    /\ UNCHANGED <<network, currency, op, ep, ctx, attempt, resp, price, balance, amount, hash>>
    /\ UNCHANGED <<reqLog, fundTxs, confirmLog, maxAttempts, handed, observedDone>>

\* getTokenContractAddress after c.client.Get returned a response, and New's
\* handling of its result: statusCheck, decodeBody, the lookup in Addresses
getTokenContractAddress(decodeOK, body) ==
    /\ pc = "check"
    /\ ep = "nodeinfo"
    /\ lastBody' = IF statusCheck(resp) = "ok" /\ decodeOK THEN <<body>> ELSE <<>>
    /\ LET err == IF statusCheck(resp) # "ok" THEN statusCheck(resp)
                  ELSE IF ~decodeOK THEN "ErrDecode"
                  ELSE IF currency \in DOMAIN body THEN "ok"
                  ELSE "ErrCurrencyIsInvalid"
       IN  /\ Return(err, <<>>, openBodies, Append(legRes, err))
           /\ client' = IF err = "ok" THEN "ok" ELSE "failed"
           /\ mu' = IF err = "ok" THEN "unlocked" ELSE mu
           /\ contract' = IF err = "ok" THEN body[currency] ELSE contract
    /\ UNCHANGED <<network, currency, op, ep, ctx, attempt, resp, price, balance, amount, hash>>
    /\ UNCHANGED <<reqLog, fundTxs, confirmLog, maxAttempts, handed, observedDone>>

\* ---------------------------------------------------- context and transport

\* the caller cancels the context of the running call, or its deadline passes
Cancel ==
    /\ pc \in {"do", "select", "check", "createTx"}
    /\ op # "New"
    /\ ctx = "live"
    /\ ctx' = "done"
    /\ UNCHANGED <<clientVars, op, pc, ep, attempt, resp, price, balance, amount, hash, result, retVal, histVars>>

\* a transport that retries once more than RetryMax allows
DoRetryOnceMore(status) ==
    /\ pc = "do"
    /\ ctx = "live"
    /\ CheckRetry(status)
    /\ RetryMax - attempt >= 0
    /\ attempt' = attempt + 1
    /\ maxAttempts' = Max(maxAttempts, attempt + 1)
    /\ UNCHANGED <<clientVars, op, pc, ep, ctx, resp, price, balance, amount, hash, result, retVal>>
    /\ UNCHANGED <<reqLog, legRes, fundTxs, confirmLog, openBodies, handed, observedDone, lastBody>>

\* client.Do, an attempt that is retried: a connection error or a 5xx while
\* retries remain; the transport drains the body itself and waits
DoRetry(status) ==
    /\ pc = "do"
    /\ ctx = "live"
    /\ CheckRetry(status)
    /\ RetryMax - attempt > 0
    /\ attempt' = attempt + 1
    /\ maxAttempts' = Max(maxAttempts, attempt + 1)
    /\ UNCHANGED <<clientVars, op, pc, ep, ctx, resp, price, balance, amount, hash, result, retVal>>
    /\ UNCHANGED <<reqLog, legRes, fundTxs, confirmLog, openBodies, handed, observedDone, lastBody>>

\* client.Do returns an error and the caller returns it: the context is done
\* (during an attempt or during the wait), or the last attempt allowed could not
\* connect (PassthroughErrorHandler hands the error through)
DoFail ==
    /\ pc = "do"
    /\ \/ /\ ctx = "done"
          /\ observedDone' = TRUE
          /\ Return("ErrCancelled", <<>>, openBodies, Append(legRes, "ErrCancelled"))
          /\ UNCHANGED <<attempt, maxAttempts>>
       \/ /\ ctx = "live"
          /\ RetryMax - attempt <= 0
          /\ observedDone' = FALSE
          /\ Return("ErrNetwork", <<>>, openBodies, Append(legRes, "ErrNetwork"))
          /\ attempt' = attempt + 1
          /\ maxAttempts' = Max(maxAttempts, attempt + 1)
    /\ client' = IF op = "New" THEN "failed" ELSE client
    /\ UNCHANGED <<network, currency, contract, mu, op, ep, ctx, resp, price, balance, amount, hash>>
    /\ UNCHANGED <<reqLog, fundTxs, confirmLog, handed, lastBody>>

\* client.Do returns a response: a status the policy does not retry, or a 5xx on
\* the last attempt allowed (handed through with its body)
DoRespond(status) ==
    /\ pc = "do"
    /\ ctx = "live"
    /\ status \in Statuses
    /\ ~CheckRetry(status) \/ RetryMax - attempt <= 0
    /\ attempt' = attempt + 1
    /\ maxAttempts' = Max(maxAttempts, attempt + 1)
    /\ resp' = status
    /\ openBodies' = openBodies + 1
    /\ observedDone' = FALSE
    /\ pc' = IF ep = "nodeinfo" THEN "check" ELSE "select"
    /\ UNCHANGED <<clientVars, op, ep, ctx, price, balance, amount, hash, result, retVal>>
    /\ UNCHANGED <<reqLog, legRes, fundTxs, confirmLog, handed, lastBody>>

\* the select after the response: a done context ends the call with ctx.Err()
\* (the deferred Close runs, where there is one), otherwise the default branch
Select ==
    /\ pc = "select"
    /\ observedDone' = (ctx = "done")
    /\ IF CtxDone(ctx)
       THEN Return("ErrCancelled", <<>>, AfterReturn(ep, openBodies), Append(legRes, "ErrCancelled"))
       ELSE /\ pc' = "check"
            /\ UNCHANGED <<result, retVal, openBodies, legRes>>
    /\ UNCHANGED <<clientVars, op, ep, ctx, attempt, resp, price, balance, amount, hash>>
    /\ UNCHANGED <<reqLog, fundTxs, confirmLog, maxAttempts, handed, lastBody>>

\* ------------------------------------------------------------- the calls

\* a public operation that clears the contract address to resolve it again
CallResettingContract(o, e) ==
    /\ client = "ok"
    /\ Enter(o)
    /\ StartLeg(e, <<>>)
    /\ Running(0, <<>>)
    /\ amount' = Nil
    /\ fundTxs' = <<>>
    /\ contract' = ""
    /\ UNCHANGED <<client, network, currency, mu>>

\* a public operation whose first step is a request to endpoint e
Call(o, e) ==
    /\ client = "ok"
    /\ Enter(o)
    /\ StartLeg(e, <<>>)
    /\ Running(0, <<>>)
    /\ amount' = Nil
    /\ fundTxs' = <<>>
    /\ UNCHANGED clientVars

\* a public operation that fails to build its request (the URL does not parse)
CallRejected(o) ==
    /\ client = "ok"
    /\ Enter(o)
    /\ Return("ErrRequest", <<>>, 0, <<>>)
    /\ ep' = "none"
    /\ attempt' = 0
    /\ resp' = 0
    /\ reqLog' = <<>>
    /\ amount' = Nil
    /\ fundTxs' = <<>>
    /\ UNCHANGED clientVars

\* upload up to client.Do: signFile (it may fail), then the request is sent
upload(signOK, bodies, lr, log) ==
    IF signOK
    THEN /\ StartLeg("upload", log)
         /\ Running(bodies, lr)
    ELSE /\ Return("ErrSigning", <<>>, bodies, lr)
         /\ ep' = "none"
         /\ attempt' = 0
         /\ resp' = 0
         /\ reqLog' = log

\* TopUpBalance up to the answer of createTx: the currency provider is asked to
\* construct and broadcast a funding transaction of amt
TopUpBalance(amt, bodies, lr, log, txs) ==
    /\ amount' = amt
    /\ pc' = "createTx"
    /\ ep' = "none"
    /\ attempt' = 0
    /\ resp' = 0
    /\ reqLog' = Append(log, "fund")
    /\ fundTxs' = Append(txs, amt)
    /\ Running(bodies, lr)

GetPriceCall == Call("GetPrice", "price")

GetBalanceCall == Call("GetBalance", "balance")

BasicUploadCall == Call("BasicUpload", "price")

GetReceiptCall == Call("GetReceipt", "receipt")

DownloadCall(txId) == IF ValidURL(txId) THEN Call("Download", "download") ELSE CallRejected("Download")

GetMetaDataCall(txId) == IF ValidURL(txId) THEN Call("GetMetaData", "meta") ELSE CallRejected("GetMetaData")

\* Upload running the funding check of BasicUpload first
UploadWithCheck(signOK) ==
    /\ signOK
    /\ Call("Upload", "price")

Upload(signOK) ==
    /\ client = "ok"
    /\ Enter("Upload")
    /\ upload(signOK, 0, <<>>, <<>>)
    /\ amount' = Nil
    /\ fundTxs' = <<>>
    /\ UNCHANGED clientVars

TopUpBalanceCall(amt) ==
    /\ client = "ok"
    /\ Enter("TopUpBalance")
    /\ TopUpBalance(amt, 0, <<>>, <<>>, <<>>)
    /\ UNCHANGED clientVars

\* ------------------------------------------------- after the select's default

\* GetPrice from statusCheck on: the price is decoded (JSON null gives a nil
\* pointer) and returned; inside BasicUpload the balance query follows
GetPrice(decodeOK, body) ==
    /\ pc = "check"
    /\ ep = "price"
    /\ LET err == IF statusCheck(resp) # "ok" THEN statusCheck(resp)
                  ELSE IF ~decodeOK THEN "ErrDecode" ELSE "ok"
       IN  /\ lastBody' = IF statusCheck(resp) = "ok" /\ decodeOK THEN <<body>> ELSE <<>>
           /\ IF err # "ok"
              THEN /\ Return(err, <<>>, openBodies - 1, Append(legRes, err))
                   /\ UNCHANGED <<ep, attempt, resp, reqLog, price>>
              ELSE IF op = "GetPrice"
              THEN /\ Return("ok", <<body>>, openBodies - 1, Append(legRes, "ok"))
                   /\ UNCHANGED <<ep, attempt, resp, reqLog, price>>
              ELSE /\ price' = body
                   /\ StartLeg("balance", reqLog)
                   /\ Running(openBodies - 1, Append(legRes, "ok"))
    /\ UNCHANGED <<clientVars, op, ctx, balance, amount, hash>>
    /\ UNCHANGED <<fundTxs, confirmLog, maxAttempts, handed, observedDone>>

\* BasicUpload topping up also when the balance equals the price
BasicUploadTopUpOnEqual(b, signOK, bodies, lr) ==
    /\ balance' = b
    /\ IF Cmp(b, price) = "panic"
       THEN /\ Return("panic", <<>>, bodies, lr)
            /\ UNCHANGED <<ep, attempt, resp, reqLog, amount, fundTxs>>
       ELSE IF Cmp(b, price) \in {"lt", "eq"} /\ price # Nil
       THEN TopUpBalance(price, bodies, lr, reqLog, fundTxs)
       ELSE /\ upload(signOK, bodies, lr, reqLog)
            /\ UNCHANGED <<amount, fundTxs>>

\* BasicUpload topping up the shortfall price - balance
BasicUploadShortfall(b, signOK, bodies, lr) ==
    /\ balance' = b
    /\ IF Cmp(b, price) = "panic"
       THEN /\ Return("panic", <<>>, bodies, lr)
            /\ UNCHANGED <<ep, attempt, resp, reqLog, amount, fundTxs>>
       ELSE IF Cmp(b, price) = "lt"
       THEN TopUpBalance(Ptr(price[1] - b[1]), bodies, lr, reqLog, fundTxs)
       ELSE /\ upload(signOK, bodies, lr, reqLog)
            /\ UNCHANGED <<amount, fundTxs>>

\* BasicUpload after GetBalance returned b: the comparison with the price, the
\* top-up of the price when the balance is lower, otherwise the upload
BasicUpload(b, signOK, bodies, lr) ==
    /\ balance' = b
    /\ IF Cmp(b, price) = "panic"
       THEN /\ Return("panic", <<>>, bodies, lr)
            /\ UNCHANGED <<ep, attempt, resp, reqLog, amount, fundTxs>>
       ELSE IF Cmp(b, price) = "lt"
       THEN TopUpBalance(price, bodies, lr, reqLog, fundTxs)
       ELSE /\ upload(signOK, bodies, lr, reqLog)
            /\ UNCHANGED <<amount, fundTxs>>

\* GetBalance from statusCheck on: the BalanceResponse is decoded and converted
\* with ToBigInt
GetBalance(decodeOK, body, signOK) ==
    /\ pc = "check"
    /\ ep = "balance"
    /\ LET err == IF statusCheck(resp) # "ok" THEN statusCheck(resp)
                  ELSE IF ~decodeOK THEN "ErrDecode" ELSE "ok"
       IN  /\ lastBody' = IF statusCheck(resp) = "ok" /\ decodeOK THEN <<body>> ELSE <<>>
           /\ IF err # "ok"
              THEN /\ Return(err, <<>>, openBodies - 1, Append(legRes, err))
                   /\ UNCHANGED <<ep, attempt, resp, reqLog, balance, amount, fundTxs>>
              ELSE IF op = "GetBalance"
              THEN /\ Return("ok", <<body>>, openBodies - 1, Append(legRes, "ok"))
                   /\ UNCHANGED <<ep, attempt, resp, reqLog, balance, amount, fundTxs>>
              ELSE BasicUpload(body, signOK, openBodies - 1, Append(legRes, "ok"))
    /\ UNCHANGED <<clientVars, op, ctx, price, hash>>
    /\ UNCHANGED <<confirmLog, maxAttempts, handed, observedDone>>

\* createTx answers: the hash of the broadcast transaction, which TopUpBalance
\* sends to the node's confirmation endpoint, or an error, which it returns
\* (the context's error when the context is done, as for every network call)
createTx(ok, h) ==
    /\ pc = "createTx"
    /\ observedDone' = (ctx = "done")
    /\ IF ctx = "done"
       THEN /\ Return("ErrCancelled", <<>>, openBodies, Append(legRes, "ErrCancelled"))
            /\ UNCHANGED <<hash, confirmLog, ep, attempt, resp, reqLog>>
       ELSE IF ok
       THEN /\ hash' = h
            /\ confirmLog' = Append(confirmLog, h)
            /\ StartLeg("confirm", reqLog)
            /\ Running(openBodies, Append(legRes, "ok"))
       ELSE /\ Return("ErrFundingFailed", <<>>, openBodies, Append(legRes, "ErrFundingFailed"))
            /\ UNCHANGED <<hash, confirmLog, ep, attempt, resp, reqLog>>
    /\ UNCHANGED <<clientVars, op, ctx, price, balance, amount>>
    /\ UNCHANGED <<fundTxs, maxAttempts, handed, lastBody>>

\* TopUpBalance ignoring the result of statusCheck
TopUpBalanceIgnoreStatus(signOK) ==
    /\ pc = "check"
    /\ ep = "confirm"
    /\ IF op = "TopUpBalance"
       THEN /\ Return("ok", <<>>, openBodies - 1, Append(legRes, statusCheck(resp)))
            /\ UNCHANGED <<ep, attempt, resp, reqLog>>
       ELSE upload(signOK, openBodies - 1, Append(legRes, statusCheck(resp)), reqLog)
    /\ UNCHANGED <<clientVars, op, ctx, price, balance, amount, hash>>
    /\ UNCHANGED <<fundTxs, confirmLog, maxAttempts, handed, observedDone, lastBody>>

\* TopUpBalance funding again when the node rejects the confirmation
TopUpBalanceRefund(signOK) ==
    /\ pc = "check"
    /\ ep = "confirm"
    /\ LET err == statusCheck(resp)
       IN  IF err # "ok"
           THEN TopUpBalance(amount, openBodies - 1, Append(legRes, err), reqLog, fundTxs)
           ELSE IF op = "TopUpBalance"
           THEN /\ Return("ok", <<>>, openBodies - 1, Append(legRes, "ok"))
                /\ UNCHANGED <<ep, attempt, resp, reqLog, amount, fundTxs>>
           ELSE /\ upload(signOK, openBodies - 1, Append(legRes, "ok"), reqLog)
                /\ UNCHANGED <<amount, fundTxs>>
    /\ UNCHANGED <<clientVars, op, ctx, price, balance, hash>>
    /\ UNCHANGED <<confirmLog, maxAttempts, handed, observedDone, lastBody>>

\* TopUpBalance from statusCheck on; inside BasicUpload the upload follows
TopUpBalanceConfirm(signOK) ==
    /\ pc = "check"
    /\ ep = "confirm"
    /\ LET err == statusCheck(resp)
       IN  IF err # "ok"
           THEN /\ Return(err, <<>>, openBodies - 1, Append(legRes, err))
                /\ UNCHANGED <<ep, attempt, resp, reqLog>>
           ELSE IF op = "TopUpBalance"
           THEN /\ Return("ok", <<>>, openBodies - 1, Append(legRes, "ok"))
                /\ UNCHANGED <<ep, attempt, resp, reqLog>>
           ELSE upload(signOK, openBodies - 1, Append(legRes, "ok"), reqLog)
    /\ UNCHANGED <<clientVars, op, ctx, price, balance, amount, hash>>
    /\ UNCHANGED <<fundTxs, confirmLog, maxAttempts, handed, observedDone, lastBody>>

\* upload and GetMetaData from statusCheck on: the Transaction is decoded
DecodeTransaction(decodeOK) ==
    /\ pc = "check"
    /\ ep \in {"upload", "meta"}
    /\ LET err == IF statusCheck(resp) # "ok" THEN statusCheck(resp)
                  ELSE IF ~decodeOK THEN "ErrDecode" ELSE "ok"
       IN  /\ lastBody' = IF err = "ok" THEN <<"tx">> ELSE <<>>
           /\ Return(err, IF err = "ok" THEN <<"tx">> ELSE <<>>, openBodies - 1, Append(legRes, err))
    /\ UNCHANGED <<clientVars, op, ep, ctx, attempt, resp, price, balance, amount, hash>>
    /\ UNCHANGED <<reqLog, fundTxs, confirmLog, maxAttempts, handed, observedDone>>

\* Download from statusCheck on: the body goes to the caller inside the File
Download ==
    /\ pc = "check"
    /\ ep = "download"
    /\ LET err == statusCheck(resp)
       IN  IF err # "ok"
           THEN /\ Return(err, <<>>, openBodies, Append(legRes, err))
                /\ handed' = handed
           ELSE /\ Return("ok", <<"file">>, openBodies - 1, Append(legRes, "ok"))
                /\ handed' = handed + 1
    /\ UNCHANGED <<clientVars, op, ep, ctx, attempt, resp, price, balance, amount, hash>>
    /\ UNCHANGED <<reqLog, fundTxs, confirmLog, maxAttempts, observedDone, lastBody>>

\* GetReceipt from statusCheck on: the first edge's receipt when Edges is not
\* nil (an index out of range when it is empty), otherwise the zero Receipt
GetReceipt(decodeOK, edges) ==
    /\ pc = "check"
    /\ ep = "receipt"
    /\ LET err == IF statusCheck(resp) # "ok" THEN statusCheck(resp)
                  ELSE IF ~decodeOK THEN "ErrDecode" ELSE "ok"
       IN  /\ lastBody' = IF err = "ok" THEN <<edges>> ELSE <<>>
           /\ IF err # "ok"
              THEN Return(err, <<>>, openBodies - 1, Append(legRes, err))
              ELSE IF ~edges.isNil
              THEN IF Len(edges.items) > 0
                   THEN Return("ok", <<edges.items[1]>>, openBodies - 1, Append(legRes, "ok"))
                   ELSE Return("panic", <<>>, openBodies - 1, Append(legRes, "panic"))
              ELSE Return("ok", <<EmptyReceipt>>, openBodies - 1, Append(legRes, "ok"))
    /\ UNCHANGED <<clientVars, op, ep, ctx, attempt, resp, price, balance, amount, hash>>
    /\ UNCHANGED <<reqLog, fundTxs, confirmLog, maxAttempts, handed, observedDone>>

\* ------------------------------------------------------------------ Close

\* Close releasing nothing
CloseKeepingIdle ==
    /\ client = "ok"
    /\ closes < MaxCloses
    /\ Enter("Close")
    /\ Return("ok", <<>>, 0, <<>>)
    /\ ep' = "none"
    /\ attempt' = 0
    /\ resp' = 0
    /\ reqLog' = <<>>
    /\ amount' = Nil
    /\ fundTxs' = <<>>
    /\ idle' = idle
    /\ closes' = closes + 1
    /\ UNCHANGED <<clientVars, chunkVars, concVars>>

\* Close: the transport (an *http.Transport unless an option replaced it) is a
\* closeIdler, and its idle connections are closed
Close ==
    /\ client = "ok"
    /\ closes < MaxCloses
    /\ Enter("Close")
    /\ Return("ok", <<>>, 0, <<>>)
    /\ ep' = "none"
    /\ attempt' = 0
    /\ resp' = 0
    /\ reqLog' = <<>>
    /\ amount' = Nil
    /\ fundTxs' = <<>>
    /\ idle' = FALSE
    /\ closes' = closes + 1
    /\ UNCHANGED <<clientVars, chunkVars, concVars>>

\* the pool during a step of another operation: a body closed in the step may
\* leave its connection idle in the pool
PoolStep ==
    /\ idle' \in (IF pc \notin {"idle", "done"} /\ openBodies' < openBodies THEN {idle, TRUE} ELSE {idle})
    /\ closes' = 0
    /\ UNCHANGED <<chunkVars, concVars>>

\* the pool when the transport retries: the drained connection may be kept idle
PoolRetry ==
    /\ idle' \in {idle, TRUE}
    /\ closes' = 0
    /\ UNCHANGED <<chunkVars, concVars>>

\* the pool of a client under construction: a fresh transport
PoolNew ==
    /\ idle' = FALSE
    /\ closes' = 0
    /\ UNCHANGED <<chunkVars, concVars>>

\* ---------------------------------------------------------- specification

Next ==
    \/ \E node \in Nodes, cur \in Currencies, loggerOK \in BOOLEAN : New(node, cur, loggerOK) /\ PoolNew
    \/ \E decodeOK \in BOOLEAN, body \in AddressTables : getTokenContractAddress(decodeOK, body) /\ PoolStep
    \/ Cancel /\ PoolStep
    \/ \E status \in {0} \cup Statuses : DoRetry(status) /\ PoolRetry
    \/ DoFail /\ PoolStep
    \/ \E status \in Statuses : DoRespond(status) /\ PoolStep
    \/ Select /\ PoolStep
    \/ GetPriceCall /\ PoolStep
    \/ GetBalanceCall /\ PoolStep
    \/ BasicUploadCall /\ PoolStep
    \/ GetReceiptCall /\ PoolStep
    \/ \E txId \in TxIds : DownloadCall(txId) /\ PoolStep
    \/ \E txId \in TxIds : GetMetaDataCall(txId) /\ PoolStep
    \/ \E signOK \in BOOLEAN : Upload(signOK) /\ PoolStep
    \/ \E amt \in BigInts \ {Nil} : TopUpBalanceCall(amt) /\ PoolStep
    \/ \E decodeOK \in BOOLEAN, body \in BigInts : GetPrice(decodeOK, body) /\ PoolStep
    \/ \E decodeOK \in BOOLEAN, body \in BigInts, signOK \in BOOLEAN : GetBalance(decodeOK, body, signOK) /\ PoolStep
    \/ \E ok \in BOOLEAN, h \in Hashes : createTx(ok, h) /\ PoolStep
    \/ \E signOK \in BOOLEAN : TopUpBalanceConfirm(signOK) /\ PoolStep
    \/ \E decodeOK \in BOOLEAN : DecodeTransaction(decodeOK) /\ PoolStep
    \/ Download /\ PoolStep
    \/ \E decodeOK \in BOOLEAN, edges \in EdgeLists : GetReceipt(decodeOK, edges) /\ PoolStep
    \/ Close

Spec == Init /\ [][Next]_vars

TypeOK ==
    /\ client \in {"none", "ok", "failed"}
    /\ mu \in {"unlocked", "locked"}
    /\ pc \in {"idle", "do", "select", "check", "createTx", "done"}
    /\ ctx \in {"live", "done"}
    /\ attempt \in 0..(RetryMax + 1)
    /\ resp \in {0} \cup Statuses
    /\ price \in BigInts
    /\ balance \in BigInts
    /\ openBodies \in 0..1
    /\ handed \in 0..1
    /\ idle \in BOOLEAN
    /\ closes \in 0..MaxCloses

\* ------------------------------------------------------------ ChunkUpload

mainVars == <<clientVars, callVars, histVars, poolVars>>

\* a client as New returns it (the first attempt of the node-info request
\* answered with the table of the selected currency), with no call made since
Constructed ==
    /\ client = "ok"
    /\ network \in Nodes
    /\ currency \in Currencies
    /\ contract \in Addresses
    /\ mu = "unlocked"
    /\ op = "New"
    /\ pc = "done"
    /\ ep = "nodeinfo"
    /\ ctx = "live"
    /\ attempt = 1
    /\ resp = 200
    /\ price = Nil
    /\ balance = Nil
    /\ amount = Nil
    /\ hash = 0
    /\ result = "ok"
    /\ retVal = <<>>
    /\ reqLog = <<"nodeinfo">>
    /\ legRes = <<"ok">>
    /\ fundTxs = <<>>
    /\ confirmLog = <<>>
    /\ maxAttempts = 1
    /\ openBodies = 1
    /\ handed = 0
    /\ observedDone = FALSE
    /\ lastBody = <<[c \in {currency} |-> contract]>>
    /\ idle = FALSE
    /\ closes = 0

\* payload sizes around the two limits, in KB
Sizes == {MinChunkSize - 1, MinChunkSize, MaxChunkSize, MaxChunkSize + 1}

\* a size check that forgets the maximum
InRangeNoMax(size) == size >= MinChunkSize

\* the limits of a chunked payload: at least 500 KB, at most 95 MB
InRange(size) == size >= MinChunkSize /\ size <= MaxChunkSize

Inflight == {i \in DOMAIN cuChunks : cuChunks[i] = "inflight"}

AllAcked == \A i \in DOMAIN cuChunks : cuChunks[i] = "acked"

\* ChunkUpload is called with a payload of `size` KB that the node splits into n
\* chunks, with or without a session id: outside the limits it fails at once;
\* without a session id the session is created first
ChunkUpload(size, n, supplied) ==
    /\ cuPc \in {"idle", "done"}
    /\ cuSize' = size
    /\ cuFinalized' = 0
    /\ IF ~InRange(size)
       THEN /\ cuPc' = "done"
            /\ cuResult' = "SizeOutOfRange"
            /\ cuSession' = "none"
            /\ cuChunks' = <<>>
            /\ cuRequests' = 0
       ELSE /\ cuResult' = "none"
            /\ cuChunks' = [i \in 1..n |-> "pending"]
            /\ IF supplied
               THEN /\ cuPc' = "sending"
                    /\ cuSession' = "supplied"
                    /\ cuRequests' = 0
               ELSE /\ cuPc' = "session"
                    /\ cuSession' = "none"
                    /\ cuRequests' = 1
    /\ UNCHANGED <<mainVars, concVars>>

\* the node answers the session request with a session id, or the request fails
CreateSession(ok) ==
    /\ cuPc = "session"
    /\ IF ok
       THEN /\ cuPc' = "sending"
            /\ cuSession' = "created"
            /\ cuResult' = cuResult
       ELSE /\ cuPc' = "done"
            /\ cuSession' = cuSession
            /\ cuResult' = "NetworkError"
    /\ UNCHANGED <<cuSize, cuChunks, cuFinalized, cuRequests, mainVars, concVars>>

\* a worker sends chunk i, while fewer than Workers chunks are in flight
SendChunk(i) ==
    /\ cuPc = "sending"
    /\ i \in DOMAIN cuChunks
    /\ cuChunks[i] = "pending"
    /\ Cardinality(Inflight) < Workers
    /\ cuChunks' = [cuChunks EXCEPT ![i] = "inflight"]
    /\ cuRequests' = cuRequests + 1
    /\ UNCHANGED <<cuPc, cuSize, cuSession, cuFinalized, cuResult, mainVars, concVars>>

\* the node acknowledges chunk i
AckChunk(i) ==
    /\ cuPc = "sending"
    /\ i \in DOMAIN cuChunks
    /\ cuChunks[i] = "inflight"
    /\ cuChunks' = [cuChunks EXCEPT ![i] = "acked"]
    /\ UNCHANGED <<cuPc, cuSize, cuSession, cuFinalized, cuRequests, cuResult, mainVars, concVars>>

\* chunk i fails: the transport's retries are exhausted (ChunkUploadFailed), or
\* the node reports the session expired; the call fails
FailChunk(i, expired) ==
    /\ cuPc = "sending"
    /\ i \in DOMAIN cuChunks
    /\ cuChunks[i] = "inflight"
    /\ cuChunks' = [cuChunks EXCEPT ![i] = IF expired THEN "expired" ELSE "failed"]
    /\ cuPc' = "done"
    /\ cuResult' = IF expired THEN "SessionExpired" ELSE "ChunkUploadFailed"
    /\ UNCHANGED <<cuSize, cuSession, cuFinalized, cuRequests, mainVars, concVars>>

\* a finalize sent as soon as no chunk is left to send
FinalizeEarly ==
    /\ cuPc = "sending"
    /\ \A i \in DOMAIN cuChunks : cuChunks[i] # "pending"
    /\ cuPc' = "finalize"
    /\ cuFinalized' = cuFinalized + 1
    /\ cuRequests' = cuRequests + 1
    /\ UNCHANGED <<cuSize, cuSession, cuChunks, cuResult, mainVars, concVars>>

\* the join over the chunk results: every chunk is acknowledged, finalize is sent
Finalize ==
    /\ cuPc = "sending"
    /\ AllAcked
    /\ cuPc' = "finalize"
    /\ cuFinalized' = cuFinalized + 1
    /\ cuRequests' = cuRequests + 1
    /\ UNCHANGED <<cuSize, cuSession, cuChunks, cuResult, mainVars, concVars>>

\* the node answers finalize: the transaction, or a rejection
FinalizeReturn(r) ==
    /\ cuPc = "finalize"
    /\ cuPc' = "done"
    /\ cuResult' = r
    /\ UNCHANGED <<cuSize, cuSession, cuChunks, cuFinalized, cuRequests, mainVars, concVars>>

InitChunk ==
    /\ Constructed
    /\ ChunkIdle
    /\ ConcIdle

NextChunk ==
    \/ \E size \in Sizes, n \in 1..MaxChunks, supplied \in BOOLEAN : ChunkUpload(size, n, supplied)
    \/ \E ok \in BOOLEAN : CreateSession(ok)
    \/ \E i \in 1..MaxChunks : SendChunk(i)
    \/ \E i \in 1..MaxChunks : AckChunk(i)
    \/ \E i \in 1..MaxChunks, expired \in BOOLEAN : FailChunk(i, expired)
    \/ Finalize
    \/ \E r \in {"ok", "SessionExpired", "BadResponse"} : FinalizeReturn(r)

SpecChunk == InitChunk /\ [][NextChunk]_vars

\* ------------------------------------------- concurrent BasicUpload calls

NotSent == 0 - 1

\* a BasicUpload call that has not run yet
NewCall == [pc |-> "start", price |-> 0, balance |-> 0, atSend |-> NotSent, result |-> "none"]

\* caller c's call fails with error r
Fail(c, r) == [calls EXCEPT ![c].pc = "done", ![c].result = r]

\* BasicUpload, first leg: GetPrice quotes q for the file, or fails
ConcGetPrice(c, ok, q) ==
    /\ calls[c].pc = "start"
    /\ calls' = IF ok
                THEN [calls EXCEPT ![c].pc = "priced", ![c].price = q]
                ELSE Fail(c, "ErrStatus")
    /\ UNCHANGED <<nodeBalance, mainVars, chunkVars>>

\* BasicUpload, second leg: GetBalance reads the node's balance of the address,
\* or fails; the comparison with the price then selects funding or the upload
ConcGetBalance(c, ok) ==
    /\ calls[c].pc = "priced"
    /\ calls' = IF ~ok
                THEN Fail(c, "ErrStatus")
                ELSE [calls EXCEPT ![c].balance = nodeBalance,
                                   ![c].pc = IF Cmp(Ptr(nodeBalance), Ptr(calls[c].price)) = "lt"
                                             THEN "fund" ELSE "upload"]
    /\ UNCHANGED <<nodeBalance, mainVars, chunkVars>>

\* BasicUpload, TopUpBalance(price): the node credits the price, or the call fails
ConcTopUpBalance(c, ok) ==
    /\ calls[c].pc = "fund"
    /\ IF ok
       THEN /\ nodeBalance' = nodeBalance + calls[c].price
            /\ calls' = [calls EXCEPT ![c].pc = "upload"]
       ELSE /\ nodeBalance' = nodeBalance
            /\ calls' = Fail(c, "ErrTopUp")
    /\ UNCHANGED <<mainVars, chunkVars>>

\* BasicUpload, upload: the file is signed and the upload request is sent
ConcUpload(c, signOK) ==
    /\ calls[c].pc = "upload"
    /\ calls' = IF signOK
                THEN [calls EXCEPT ![c].pc = "sent", ![c].atSend = nodeBalance]
                ELSE Fail(c, "ErrSign")
    /\ UNCHANGED <<nodeBalance, mainVars, chunkVars>>

\* the node answers the upload: it debits the price, or answers 402 when the
\* balance does not cover it
NodeUpload(c) ==
    /\ calls[c].pc = "sent"
    /\ IF nodeBalance >= calls[c].price
       THEN /\ nodeBalance' = nodeBalance - calls[c].price
            /\ calls' = [calls EXCEPT ![c].pc = "done", ![c].result = statusCheck(200)]
       ELSE /\ nodeBalance' = nodeBalance
            /\ calls' = [calls EXCEPT ![c].pc = "done", ![c].result = statusCheck(402)]
    /\ UNCHANGED <<mainVars, chunkVars>>

InitConc ==
    /\ Constructed
    /\ ChunkIdle
    /\ nodeBalance \in 0..MaxAmount
    /\ calls = [c \in Callers |-> NewCall]

NextConc ==
    \/ \E c \in Callers, ok \in BOOLEAN, q \in 1..MaxAmount : ConcGetPrice(c, ok, q)
    \/ \E c \in Callers, ok \in BOOLEAN : ConcGetBalance(c, ok)
    \/ \E c \in Callers, ok \in BOOLEAN : ConcTopUpBalance(c, ok)
    \/ \E c \in Callers, signOK \in BOOLEAN : ConcUpload(c, signOK)
    \/ \E c \in Callers : NodeUpload(c)

SpecConc == InitConc /\ [][NextConc]_vars

\* ================================================================ claims

IsPrefix(s, t) == Len(s) <= Len(t) /\ \A i \in 1..Len(s) : s[i] = t[i]

Count(s, x) == Cardinality({i \in 1..Len(s) : s[i] = x})

\* BasicUpload has read the price and the balance successfully (both are numbers)
BothRead ==
    /\ op = "BasicUpload"
    /\ Len(legRes) >= 2
    /\ legRes[1] = "ok"
    /\ legRes[2] = "ok"
    /\ price # Nil
    /\ balance # Nil

\* C1: once BasicUpload has read the price and the balance, the number of funding
\* transactions it asked the currency provider for is 0 when balance >= price
\* and exactly 1 when balance < price, up to and including its return.
C1_FundingCount ==
    BothRead => Len(fundTxs) = (IF balance[1] >= price[1] THEN 0 ELSE 1)

C1_Witness ==
    /\ BothRead
    /\ pc = "done"
    /\ result = "ok"
    /\ balance[1] < price[1]
    /\ Len(fundTxs) = 1

\* C2: every funding transaction BasicUpload asks for has the quoted price as its
\* amount, whatever the balance below the price is (never the shortfall); with
\* balance 0 and price 50 there is one funding transaction for 50 and then one
\* upload request.
C2_TopUpAmountIsPrice ==
    op = "BasicUpload" =>
        /\ \A i \in 1..Len(fundTxs) : fundTxs[i] = price
        /\ (BothRead /\ balance[1] < price[1]) => (fundTxs = <<price>> /\ amount = price)
        /\ (BothRead /\ balance = Ptr(0) /\ price = Ptr(ExamplePrice) /\ result = "ok") =>
              /\ fundTxs = <<Ptr(ExamplePrice)>>
              /\ reqLog = <<"price", "balance", "fund", "confirm", "upload">>

C2_Witness ==
    /\ BothRead
    /\ pc = "done"
    /\ result = "ok"
    /\ balance = Ptr(1)
    /\ price = Ptr(2)
    /\ fundTxs = <<Ptr(2)>>
    /\ Count(reqLog, "upload") = 1

\* C3: the steps of one BasicUpload are started in the order price query, balance
\* query, funding and its confirmation (exactly when the balance is below the
\* price), upload request; a step is started only when every step before it has
\* returned successfully, so after a step that returned an error nothing more is
\* started, and no upload request follows a failed query or top-up.
C3_Sequential ==
    op = "BasicUpload" =>
        /\ \/ IsPrefix(reqLog, <<"price", "balance", "upload">>)
           \/ IsPrefix(reqLog, <<"price", "balance", "fund", "confirm", "upload">>)
        /\ Len(legRes) = (IF pc = "done" THEN Len(reqLog) ELSE Len(reqLog) - 1)
        /\ \A i \in 1..Len(legRes) : i < Len(reqLog) => legRes[i] = "ok"
        /\ Len(reqLog) >= 3 => (reqLog[3] = "fund" <=> Cmp(balance, price) = "lt")
        /\ (pc = "done" /\ result \notin {"ok", "ErrSigning", "panic"}) => legRes[Len(legRes)] = result

C3_Witness ==
    /\ op = "BasicUpload"
    /\ pc = "done"
    /\ result = "ErrStatus"
    /\ reqLog = <<"price", "balance", "fund", "confirm">>
    /\ legRes = <<"ok", "ok", "ok", "ErrStatus">>

\* C4: in one call the currency provider is asked for a funding transaction at
\* most once; a confirmation request is sent only after the funding step
\* succeeded, with the hash it returned, and however often the confirmation
\* request is retried or however it fails, no second funding transaction is
\* asked for.
C4_FundAtMostOnce ==
    /\ Len(fundTxs) <= 1
    /\ Count(reqLog, "fund") = Len(fundTxs)
    /\ Len(confirmLog) <= Len(fundTxs)
    /\ Count(reqLog, "confirm") = Len(confirmLog)
    /\ \A i \in 1..Len(reqLog) :
          reqLog[i] = "confirm" => (i > 1 /\ reqLog[i - 1] = "fund" /\ legRes[i - 1] = "ok")
    /\ confirmLog # <<>> => confirmLog = <<hash>>
    /\ (pc = "done" /\ result = "ErrFundingFailed") => confirmLog = <<>>

C4_Witness ==
    /\ op = "TopUpBalance"
    /\ pc = "done"
    /\ ep = "confirm"
    /\ maxAttempts > 1
    /\ result = "ErrNetwork"
    /\ Len(fundTxs) = 1

\* the node rejected the confirmation call and TopUpBalance looked at the status
ConfirmationRejected ==
    /\ ep = "confirm"
    /\ resp \in Statuses \ {200}
    /\ ~observedDone

\* C5: a returned TopUpBalance failed with ErrFundingFailed exactly when the
\* funding step (construction or broadcast) failed, and with the status error of
\* the confirmation call (the spec's ConfirmationFailed) exactly when the node
\* rejected the confirmation; the two differ.  It returned success only after the
\* provider broadcast the transaction and the node answered the confirmation of
\* that transaction's hash with a success status.
C5_TopUpErrors ==
    (op = "TopUpBalance" /\ pc = "done") =>
        /\ result = "ErrFundingFailed" <=> legRes = <<"ErrFundingFailed">>
        /\ result = "ErrStatus" <=> ConfirmationRejected
        /\ result = "ok" =>
              /\ fundTxs = <<amount>>
              /\ legRes = <<"ok", "ok">>
              /\ hash \in Hashes
              /\ confirmLog = <<hash>>
              /\ ep = "confirm"
              /\ resp = 200

C5_Witness ==
    /\ op = "TopUpBalance"
    /\ pc = "done"
    /\ ConfirmationRejected
    /\ result = "ErrStatus"
    /\ legRes = <<"ok", "ErrStatus">>

NoMatchingEdge ==
    /\ op = "GetReceipt"
    /\ pc = "done"
    /\ lastBody # <<>>
    /\ (lastBody[1].isNil \/ Len(lastBody[1].items) = 0)

\* C7: GetReceipt returns the empty Receipt and no error when the well-formed
\* answer has no matching edge, the edges list being null or empty.
C7_SoftMiss == NoMatchingEdge => (result = "ok" /\ retVal = <<EmptyReceipt>>)

\* C8: no public operation ends in a panic, whatever the node or gateway answers.
C8_NoPanic == result # "panic"

\* C9 as stated: a call that returns after its context was cancelled returns a
\* cancellation error.
C9_CancelledBeforeReturn ==
    (pc = "done" /\ op # "New" /\ ctx = "done") => result = "ErrCancelled"

\* C9: a call whose last cancellation check (the transport's while the request is
\* in flight or waiting for a retry, the provider's, or the select after the
\* response arrived) found the context done returns the cancellation error, never
\* a network error and never a value; and a cancellation error is returned only
\* when the context is done.
C9_ObservedCancel ==
    pc = "done" =>
        /\ observedDone => (result = "ErrCancelled" /\ retVal = <<>>)
        /\ result = "ErrCancelled" => (ctx = "done" /\ observedDone)

C9_Witness ==
    /\ pc = "done"
    /\ observedDone
    /\ resp = 200
    /\ result = "ErrCancelled"

\* C10: a returned non-streaming call has closed every response body it obtained.
C10_BodiesClosed == (pc = "done" /\ op # "Download") => openBodies = 0

C12_AtMostFiveSends == attempt <= 5

\* C12: a request is sent at most RetryMax + 1 = 6 times in total (one attempt
\* and up to RetryMax retries); every new request starts with no attempts made,
\* and a request that keeps failing to connect is given up only after all
\* RetryMax + 1 attempts, whatever the requests before it used.
C12_AttemptsPerRequest ==
    [][/\ attempt' <= RetryMax + 1
       /\ (pc' = "do" /\ (pc # "do" \/ reqLog' # reqLog)) => attempt' = 0
       /\ (pc = "do" /\ pc' = "done" /\ result' = "ErrNetwork") => attempt' = RetryMax + 1]_vars

C12_Witness ==
    /\ op = "BasicUpload"
    /\ reqLog = <<"price", "balance">>
    /\ pc = "done"
    /\ result = "ErrNetwork"
    /\ attempt = RetryMax + 1

\* C16: New returns a client exactly when it returns no error, which is only
\* after the node-info request succeeded and the address table listed the
\* currency's name; the client's contract address is that entry.  When the
\* table does not list the currency New returns ErrCurrencyIsInvalid and no
\* client.
C16_NewContract ==
    /\ client = "ok" => contract \in Addresses
    /\ (op = "New" /\ pc = "done") =>
          /\ client = "ok" <=> result = "ok"
          /\ client # "ok" => client = "failed"
          /\ result = "ok" =>
                /\ resp = 200
                /\ lastBody # <<>>
                /\ currency \in DOMAIN lastBody[1]
                /\ contract = lastBody[1][currency]
          /\ (lastBody # <<>> /\ currency \notin DOMAIN lastBody[1]) => result = "ErrCurrencyIsInvalid"

C16_Witness ==
    /\ op = "New"
    /\ pc = "done"
    /\ client = "ok"
    /\ lastBody # <<>>
    /\ DOMAIN lastBody[1] = Currencies
    /\ lastBody[1]["matic"] # lastBody[1]["arweave"]
    /\ contract = lastBody[1][currency]

\* C17: a returned Download has handed the response body to the caller (when it
\* returns the File) or has closed it (when it returns an error).
C17_StreamOwned ==
    (op = "Download" /\ pc = "done") =>
        /\ openBodies = 0
        /\ handed = 1 <=> result = "ok"

\* C19: New has released the client's mutex whenever it has returned.
C19_MutexReleased == (op = "New" /\ pc = "done") => mu = "unlocked"

\* C15: every call of Close on a constructed client returns normally, leaves no
\* idle connection pooled and leaves the configuration unchanged; a call of
\* Close that follows a call of Close changes nothing (but the count of calls),
\* so the state after n >= 1 calls is the state after one.
C15_CloseIdempotent ==
    [][op' = "Close" /\ closes' # closes =>
          /\ pc' = "done"
          /\ result' = "ok"
          /\ ~idle'
          /\ clientVars' = clientVars
          /\ op = "Close" => (callVars' = callVars /\ histVars' = histVars /\ idle' = idle)]_vars

C15_Witness ==
    /\ op = "Close"
    /\ pc = "done"
    /\ closes = 2
    /\ result = "ok"
    /\ ~idle
    /\ client = "ok"

\* C13: in a ChunkUpload the chunks are acknowledged in any order; finalize is
\* issued at most once and only when every chunk has been acknowledged; when a
\* chunk has failed with its retries exhausted, finalize is not issued and the
\* call has failed with ChunkUploadFailed.
C13_FinalizeAfterJoin ==
    /\ cuFinalized <= 1
    /\ cuFinalized = 1 => (AllAcked /\ cuPc \in {"finalize", "done"})
    /\ cuResult = "ok" => (cuFinalized = 1 /\ AllAcked)
    /\ (\E i \in DOMAIN cuChunks : cuChunks[i] = "failed") =>
          /\ cuFinalized = 0
          /\ cuPc = "done"
          /\ cuResult = "ChunkUploadFailed"

C13_Witness ==
    /\ cuPc = "done"
    /\ cuResult = "ChunkUploadFailed"
    /\ Len(cuChunks) = 3
    /\ cuChunks[1] = "failed"
    /\ cuChunks[2] = "acked"
    /\ cuChunks[3] = "pending"
    /\ cuFinalized = 0

\* C14: a ChunkUpload whose payload is smaller than 500 KB or larger than 95 MB
\* has failed with SizeOutOfRange without sending any request: no session was
\* created and no chunk transmitted; a payload within the limits never fails so.
C14_SizeOutOfRange ==
    cuPc # "idle" =>
        /\ (cuSize < 500 \/ cuSize > 95 * 1024) =>
              /\ cuPc = "done"
              /\ cuResult = "SizeOutOfRange"
              /\ cuRequests = 0
              /\ cuSession = "none"
              /\ cuChunks = <<>>
              /\ cuFinalized = 0
        /\ (cuSize >= 500 /\ cuSize <= 95 * 1024) => cuResult # "SizeOutOfRange"

C14_Witness ==
    /\ cuPc = "done"
    /\ cuSize = MaxChunkSize + 1
    /\ cuResult = "SizeOutOfRange"
    /\ cuRequests = 0

\* C18: whenever a BasicUpload call has sent its upload request, the node's
\* balance of the address at that moment was at least the price the call was
\* quoted, also when several BasicUpload calls of one address interleave.
C18_BalanceCoversPrice ==
    \A c \in DOMAIN calls :
        calls[c].atSend # NotSent => calls[c].atSend >= calls[c].price

====
